---- MODULE Spec2Model ----
(***************************************************************************)
(* A model of the notebook 2-differentiable-quantum-computing.ipynb: the   *)
(* Jupyter kernel's namespace, the shared default.qubit device, and the    *)
(* three training cells (hand-coded gradient descent, the native           *)
(* GradientDescentOptimizer, the PyTorch/Adam rewrite).                    *)
(*                                                                         *)
(* Real numbers are fixed-point integers: a value v stands for v / Scale.  *)
(* The amplitudes of the device are kept AmpFine times finer, so that what  *)
(* the floating-point simulation computes as 0 up to its rounding is 0 at   *)
(* resolution Scale.  Complex amplitudes are pairs <<re, im>>.  The state   *)
(* vector of the two wires                                                  *)
(* wires is a 4-tuple indexed by 1 + 2*q0 + q1 (wire 0 is the most         *)
(* significant bit, as in the recorded outputs of the notebook).           *)
(***************************************************************************)
EXTENDS Integers, Sequences, FiniteSets, TLC

\* Fixed-point resolution: the number of representable values per unit.
Scale == 1000

\* The amplitudes of the state vector have AmpFine times the resolution.
AmpFine == 20
Amp == AmpFine * Scale

\* ------------------------------------------------------------------------
\* Arithmetic of the numeric libraries, in fixed point
\* ------------------------------------------------------------------------

\* n / d rounded to the nearest integer (d > 0).
RDiv(n, d) == (2 * n + d) \div (2 * d)

\* Product of two fixed-point values.
Mul(a, b) == RDiv(a * b, Scale)

\* a ** 2, as in loss().
Sq(a) == Mul(a, a)

\* pi at resolution S (355/113 is pi to 3e-7).
PiAt(S) == (355 * S) \div 113

\* sin of x / S for 0 <= x <= pi/4, result at resolution S (Taylor, Horner form).
SinOctant(x, S) ==
    LET x2 == RDiv(x * x, S)
        h4 == S - RDiv(x2, 72)
        h3 == S - RDiv(RDiv(x2 * h4, S), 42)
        h2 == S - RDiv(RDiv(x2 * h3, S), 20)
        h1 == S - RDiv(RDiv(x2 * h2, S), 6)
    IN  RDiv(x * h1, S)

\* cos of x / S for 0 <= x <= pi/4, result at resolution S.
CosOctant(x, S) ==
    LET x2 == RDiv(x * x, S)
        h5 == S - RDiv(x2, 90)
        h4 == S - RDiv(RDiv(x2 * h5, S), 56)
        h3 == S - RDiv(RDiv(x2 * h4, S), 30)
        h2 == S - RDiv(RDiv(x2 * h3, S), 12)
        h1 == S - RDiv(RDiv(x2 * h2, S), 2)
    IN  h1

\* sin and cos of x / S for 0 <= x <= pi/2.
SinQ(x, S) ==
    IF 4 * x > PiAt(S) THEN CosOctant(RDiv(PiAt(S), 2) - x, S) ELSE SinOctant(x, S)
CosQ(x, S) ==
    IF 4 * x > PiAt(S) THEN SinOctant(RDiv(PiAt(S), 2) - x, S) ELSE CosOctant(x, S)

\* The angle a / S reduced to (-pi, pi].
Reduce(a, S) ==
    LET r == a % (2 * PiAt(S))
    IN  IF r > PiAt(S) THEN r - 2 * PiAt(S) ELSE r

\* sin(a / S) for any a, result at resolution S.
SinAt(a, S) ==
    LET r  == Reduce(a, S)
        m  == IF r < 0 THEN -r ELSE r
        q  == IF 2 * m > PiAt(S) THEN PiAt(S) - m ELSE m
        v  == SinQ(q, S)
    IN  IF r < 0 THEN -v ELSE v

\* cos(a / S) for any a, result at resolution S.
CosAt(a, S) ==
    LET r  == Reduce(a, S)
        m  == IF r < 0 THEN -r ELSE r
    IN  IF 2 * m > PiAt(S) THEN -CosQ(PiAt(S) - m, S) ELSE CosQ(m, S)

\* cos(theta / 2) and sin(theta / 2) of a fixed-point angle theta, at the
\* resolution of the amplitudes.
CosHalf(theta) == CosAt(RDiv(theta * AmpFine, 2), Amp)
SinHalf(theta) == SinAt(RDiv(theta * AmpFine, 2), Amp)

\* The largest r with r * r <= n, found by bisection on lo <= r < hi.
RECURSIVE SqrtBetween(_, _, _)
SqrtBetween(n, lo, hi) ==
    IF hi - lo <= 1 THEN lo
    ELSE LET mid == (lo + hi) \div 2
         IN  IF mid * mid <= n THEN SqrtBetween(n, mid, hi)
                               ELSE SqrtBetween(n, lo, mid)

\* The integer square root of n, 0 <= n < 2^30.
ISqrt(n) == SqrtBetween(n, 0, 32768)

\* The square root of n rounded to the nearest integer.
RoundSqrt(n) == IF n - ISqrt(n) * ISqrt(n) > ISqrt(n) THEN ISqrt(n) + 1 ELSE ISqrt(n)

\* Quotient and remainder of a * b by c, for a, b >= 0 and 0 < 3 * c < 2^31,
\* without forming a * b: b is taken bit by bit.
RECURSIVE MulDivQR(_, _, _)
MulDivQR(a, b, c) ==
    IF b = 0 THEN <<0, 0>>
    ELSE CHOOSE qr \in {<<2 * h[1] + (b % 2) * (a \div c) + (2 * h[2] + (b % 2) * (a % c)) \div c,
                          (2 * h[2] + (b % 2) * (a % c)) % c>> :
                        h \in {MulDivQR(a, b \div 2, c)}} : TRUE

\* a * b / c rounded to the nearest integer, for b >= 0 and c > 0.
MulDiv(a, b, c) ==
    LET qr == MulDivQR(IF a < 0 THEN -a ELSE a, b, c)
        q  == IF 2 * qr[2] >= c THEN qr[1] + 1 ELSE qr[1]
    IN  IF a < 0 THEN -q ELSE q

\* s = 1/np.sqrt(2), at the resolution of the amplitudes.
s == ISqrt((Amp * Amp) \div 2)

\* ------------------------------------------------------------------------
\* Complex amplitudes and the state vector of default.qubit
\* ------------------------------------------------------------------------

CAdd(a, b) == <<a[1] + b[1], a[2] + b[2]>>
CMul(a, b) == <<RDiv(a[1] * b[1], Amp) - RDiv(a[2] * b[2], Amp),
                RDiv(a[1] * b[2], Amp) + RDiv(a[2] * b[1], Amp)>>
CReal(r) == <<r, 0>>
CZero == <<0, 0>>

\* The state of a freshly reset device: |00>.
Ket00 == <<CReal(Amp), CZero, CZero, CZero>>

\* Bit of wire k (0 or 1) in basis index j (1..4).
Bit(j, k) == IF k = 0 THEN (j - 1) \div 2 ELSE (j - 1) % 2

\* Basis index j with the bit of wire k set to v.
WithBit(j, k, v) ==
    IF k = 0 THEN 1 + 2 * v + Bit(j, 1) ELSE 1 + 2 * Bit(j, 0) + v

\* A one-wire gate with matrix m (m[row][col], rows and columns 1..2) on wire k.
Apply1Amp(m, k, st, j) ==
    CAdd(CMul(m[Bit(j, k) + 1][1], st[WithBit(j, k, 0)]),
         CMul(m[Bit(j, k) + 1][2], st[WithBit(j, k, 1)]))
Apply1(m, k, st) ==
    <<Apply1Amp(m, k, st, 1), Apply1Amp(m, k, st, 2),
      Apply1Amp(m, k, st, 3), Apply1Amp(m, k, st, 4)>>

\* A two-wire unitary u (4 x 4, real entries) on wires [0, 1].
Apply2Amp(u, st, j) ==
    CAdd(CAdd(CMul(CReal(u[j][1]), st[1]), CMul(CReal(u[j][2]), st[2])),
         CAdd(CMul(CReal(u[j][3]), st[3]), CMul(CReal(u[j][4]), st[4])))
Apply2(u, st) ==
    <<Apply2Amp(u, st, 1), Apply2Amp(u, st, 2), Apply2Amp(u, st, 3), Apply2Amp(u, st, 4)>>

\* CNOT with control c and target t: flips the target bit where the control is 1.
CNOTAmp(c, t, st, j) ==
    IF Bit(j, c) = 1 THEN st[WithBit(j, t, 1 - Bit(j, t))] ELSE st[j]
ApplyCNOT(c, t, st) ==
    <<CNOTAmp(c, t, st, 1), CNOTAmp(c, t, st, 2), CNOTAmp(c, t, st, 3), CNOTAmp(c, t, st, 4)>>

RXMatrix(theta) ==
    LET c  == CosHalf(theta)
        sn == SinHalf(theta)
    IN  <<<<CReal(c), <<0, -sn>>>>, <<<<0, -sn>>, CReal(c)>>>>
RYMatrix(theta) ==
    LET c  == CosHalf(theta)
        sn == SinHalf(theta)
    IN  <<<<CReal(c), CReal(-sn)>>, <<CReal(sn), CReal(c)>>>>
HadamardMatrix == <<<<CReal(s), CReal(s)>>, <<CReal(s), CReal(-s)>>>>
PauliXMatrix == <<<<CZero, CReal(Amp)>>, <<CReal(Amp), CZero>>>>
PauliZMatrix == <<<<CReal(Amp), CZero>>, <<CZero, CReal(-Amp)>>>>

\* The matrix U of the notebook.
U == <<<<0, -s, 0, s>>,
       <<s, 0, -s, 0>>,
       <<s, 0, s, 0>>,
       <<0, -s, 0, -s>>>>
\* ------------------------------------------------------------------------
\* Operations, templates and the execution of a circuit on the device
\* ------------------------------------------------------------------------

RX(theta, wire) == [name |-> "RX", wires |-> <<wire>>, par |-> theta]
RY(theta, wire) == [name |-> "RY", wires |-> <<wire>>, par |-> theta]
Hadamard(wire) == [name |-> "Hadamard", wires |-> <<wire>>, par |-> 0]
PauliX(wire) == [name |-> "PauliX", wires |-> <<wire>>, par |-> 0]
PauliZ(wire) == [name |-> "PauliZ", wires |-> <<wire>>, par |-> 0]
CNOT(c, t) == [name |-> "CNOT", wires |-> <<c, t>>, par |-> 0]
QubitUnitary == [name |-> "QubitUnitary", wires |-> <<0, 1>>, par |-> 0]

\* qml.templates.AngleEmbedding(x, wires=[0, 1]): one RX(x[i]) on each wire i.
AngleEmbedding(x) == <<RX(x[1], 0), RX(x[2], 1)>>

\* A layer that entangles before it rotates.
EntanglerLayerCNOTFirst(row) == <<CNOT(0, 1), RX(row[1], 0), RX(row[2], 1)>>

\* One layer of BasicEntanglerLayers on two wires: RX(row[i]) on each wire i,
\* then the single CNOT of the two-wire ring.
EntanglerLayer(row) == <<RX(row[1], 0), RX(row[2], 1), CNOT(0, 1)>>

\* qml.templates.BasicEntanglerLayers(w, wires=[0, 1]): the layers of w, first
\* row first.
RECURSIVE BasicEntanglerLayers(_)
BasicEntanglerLayers(w) ==
    IF w = <<>> THEN <<>>
    ELSE EntanglerLayer(Head(w)) \o BasicEntanglerLayers(Tail(w))

\* The operations quantum_model(x, w) queues, in order.
QuantumModelOps(x, w) == AngleEmbedding(x) \o BasicEntanglerLayers(w)

\* The wire whose PauliZ expectation quantum_model returns.
QuantumModelObservable == 0

\* The device applies one operation to its state.
ApplyOp(op, st) ==
    CASE op.name = "RX" -> Apply1(RXMatrix(op.par), op.wires[1], st)
      [] op.name = "RY" -> Apply1(RYMatrix(op.par), op.wires[1], st)
      [] op.name = "Hadamard" -> Apply1(HadamardMatrix, op.wires[1], st)
      [] op.name = "PauliX" -> Apply1(PauliXMatrix, op.wires[1], st)
      [] op.name = "PauliZ" -> Apply1(PauliZMatrix, op.wires[1], st)
      [] op.name = "CNOT" -> ApplyCNOT(op.wires[1], op.wires[2], st)
      [] op.name = "QubitUnitary" -> Apply2(U, st)

\* The device applies the operations in order.  (The state after the first
\* operation is computed before the remaining ones are applied to it.)
RECURSIVE ApplyOps(_, _)
ApplyOps(ops, st) ==
    IF ops = <<>> THEN st
    ELSE CHOOSE r \in {ApplyOps(Tail(ops), nxt) : nxt \in {ApplyOp(Head(ops), st)}} : TRUE

\* A device that is never reset.
KeepState(st) == st

\* The state a qnode execution starts from: the device is reset to |00>
\* whatever state the previous execution left.
ResetState(st) == Ket00

\* The device state after executing a circuit with operations ops.
Execute(ops, st) == ApplyOps(ops, ResetState(st))

\* |a|^2 at the resolution of the amplitudes.
ProbFine(a) == RDiv(a[1] * a[1], Amp) + RDiv(a[2] * a[2], Amp)

\* qml.probs(wires=[0, 1]).
Prob(a) == RDiv(ProbFine(a), AmpFine)
Probs(st) == <<Prob(st[1]), Prob(st[2]), Prob(st[3]), Prob(st[4])>>

\* The expectation of PauliZ on wire k at the resolution of the amplitudes.
ExpvalZFine(st, k) ==
    (IF Bit(1, k) = 0 THEN ProbFine(st[1]) ELSE -ProbFine(st[1]))
  + (IF Bit(2, k) = 0 THEN ProbFine(st[2]) ELSE -ProbFine(st[2]))
  + (IF Bit(3, k) = 0 THEN ProbFine(st[3]) ELSE -ProbFine(st[3]))
  + (IF Bit(4, k) = 0 THEN ProbFine(st[4]) ELSE -ProbFine(st[4]))

\* qml.expval(qml.PauliZ(wires=k)).
ExpvalZ(st, k) == RDiv(ExpvalZFine(st, k), AmpFine)

\* The value of quantum_model(x, w), at the resolution of the amplitudes.
QuantumModelFine(x, w) ==
    ExpvalZFine(ApplyOps(QuantumModelOps(x, w), Ket00), QuantumModelObservable)

\* The value of quantum_model(x, w).
QuantumModel(x, w) == RDiv(QuantumModelFine(x, w), AmpFine)

\* ------------------------------------------------------------------------
\* The model with bias, the loss and its gradients (cell 18)
\* ------------------------------------------------------------------------

\* The model without its bias term.
model_without_bias(x, w, b) == QuantumModel(x, w)

\* model_with_bias(x, w, b)
model_with_bias(x, w, b) == QuantumModel(x, w) + b

\* loss(a, b)
loss(a, b) == Sq(a - b)

\* The running sum c of average_loss after the loop over data: every (x, y) of
\* data adds loss(model_with_bias(x, w, b), y) once.
RECURSIVE LossSum(_, _, _)
LossSum(w, b, data) ==
    IF data = <<>> THEN 0
    ELSE loss(model_with_bias(Head(data)[1], w, b), Head(data)[2])
         + LossSum(w, b, Tail(data))

\* average_loss(w, b, data) of cell 18
average_loss(w, b, data) == RDiv(LossSum(w, b, data), Len(data))

\* pi / 2 as a fixed-point angle.
HalfPi == RDiv(PiAt(2 * Scale), 4)

\* w with entry [l][k] moved by d.
Shifted(w, l, k, d) == [w EXCEPT ![l][k] = @ + d]

\* The derivative of quantum_model(x, w) in the entry w[l][k].  The entry is the
\* angle of one RX rotation, for which the derivative is half the difference of
\* the values at the angle plus and minus pi / 2.
DQuantumModel(x, w, l, k) ==
    RDiv(QuantumModelFine(x, Shifted(w, l, k, HalfPi))
         - QuantumModelFine(x, Shifted(w, l, k, -HalfPi)), 2 * AmpFine)

\* Rows l.. of the derivative of quantum_model(x, w) in w (one column per wire).
RECURSIVE GradQuantumModelRows(_, _, _)
GradQuantumModelRows(x, w, l) ==
    IF l > Len(w) THEN <<>>
    ELSE <<<<DQuantumModel(x, w, l, 1), DQuantumModel(x, w, l, 2)>>>>
         \o GradQuantumModelRows(x, w, l + 1)

\* The derivative of quantum_model(x, w) in w.
GradQuantumModel(x, w) == GradQuantumModelRows(x, w, 1)

\* Entrywise arithmetic on matrices with one column per wire.
RECURSIVE MatZero(_)
MatZero(a) == IF a = <<>> THEN <<>> ELSE <<<<0, 0>>>> \o MatZero(Tail(a))
RECURSIVE MatAdd(_, _)
MatAdd(a, g) ==
    IF a = <<>> THEN <<>>
    ELSE <<<<a[1][1] + g[1][1], a[1][2] + g[1][2]>>>> \o MatAdd(Tail(a), Tail(g))
RECURSIVE MatSub(_, _)
MatSub(a, g) ==
    IF a = <<>> THEN <<>>
    ELSE <<<<a[1][1] - g[1][1], a[1][2] - g[1][2]>>>> \o MatSub(Tail(a), Tail(g))
\* c * a for a fixed-point scalar c.
RECURSIVE MatScale(_, _)
MatScale(c, a) ==
    IF a = <<>> THEN <<>>
    ELSE <<<<Mul(c, a[1][1]), Mul(c, a[1][2])>>>> \o MatScale(c, Tail(a))
\* n * a for an integer n.
RECURSIVE MatTimes(_, _)
MatTimes(n, a) ==
    IF a = <<>> THEN <<>>
    ELSE <<<<n * a[1][1], n * a[1][2]>>>> \o MatTimes(n, Tail(a))
\* a / n for an integer n.
RECURSIVE MatOver(_, _)
MatOver(a, n) ==
    IF a = <<>> THEN <<>>
    ELSE <<<<RDiv(a[1][1], n), RDiv(a[1][2], n)>>>> \o MatOver(Tail(a), n)

\* Sum over data of d loss / d w = 2 * (prediction - y) * d quantum_model / d w.
RECURSIVE GradWSum(_, _, _)
GradWSum(w, b, data) ==
    IF data = <<>> THEN MatZero(w)
    ELSE MatAdd(MatTimes(2, MatScale(model_with_bias(Head(data)[1], w, b) - Head(data)[2],
                                     GradQuantumModel(Head(data)[1], w))),
                GradWSum(w, b, Tail(data)))

\* gradient_fn_w(w, b, data) = qml.grad(average_loss, argnum=0)(w, b, data)
gradient_fn_w(w, b, data) == MatOver(GradWSum(w, b, data), Len(data))

\* Sum over data of d loss / d b = 2 * (prediction - y).
RECURSIVE GradBSum(_, _, _)
GradBSum(w, b, data) ==
    IF data = <<>> THEN 0
    ELSE 2 * (model_with_bias(Head(data)[1], w, b) - Head(data)[2])
         + GradBSum(w, b, Tail(data))

\* gradient_fn_b(w, b, data) = qml.grad(average_loss, argnum=1)(w, b, data)
gradient_fn_b(w, b, data) == RDiv(GradBSum(w, b, data), Len(data))

\* The literal 0.05 of lines 780 and 781.
LearningRate == (5 * Scale) \div 100

\* w_new = w - 0.05*gradient_fn_w(w, b, data)
Line780(w, b, data) == MatSub(w, MatScale(LearningRate, gradient_fn_w(w, b, data)))

\* The update of b evaluated at the w that line 780 has just computed.
Line781AtNewW(w, b, w_new, data) == b - Mul(LearningRate, gradient_fn_b(w_new, b, data))

\* b_new = b - 0.05*gradient_fn_b(w, b, data), executed when w_new already holds
\* the value line 780 computed.
Line781(w, b, w_new, data) == b - Mul(LearningRate, gradient_fn_b(w, b, data))

\* print(average_loss(w_new, b_new, data))
Line782(w_new, b_new, data) == average_loss(w_new, b_new, data)

\* ------------------------------------------------------------------------
\* qml.GradientDescentOptimizer (cell 19)
\* ------------------------------------------------------------------------

\* The stepsize of a GradientDescentOptimizer constructed without argument.
stepsize_default == Scale \div 100

\* The stepsize given to qml.GradientDescentOptimizer(0.05).
stepsize == (5 * Scale) \div 100

\* An optimiser step that reports the cost of the parameters it returns.
step_and_cost_after(w, b, data) ==
    [w   |-> MatSub(w, MatScale(stepsize, gradient_fn_w(w, b, data))),
     b   |-> b - Mul(stepsize, gradient_fn_b(w, b, data)),
     cst |-> average_loss(MatSub(w, MatScale(stepsize, gradient_fn_w(w, b, data))),
                          b - Mul(stepsize, gradient_fn_b(w, b, data)), data)]

\* opt.step_and_cost(lambda w_, b_: average_loss(w_, b_, data), w, b): the
\* gradient of the objective in both arguments at (w, b), each argument moved
\* against its gradient by the stepsize, and the objective's value at (w, b).
step_and_cost(w, b, data) ==
    [w   |-> MatSub(w, MatScale(stepsize, gradient_fn_w(w, b, data))),
     b   |-> b - Mul(stepsize, gradient_fn_b(w, b, data)),
     cst |-> average_loss(w, b, data)]

\* ------------------------------------------------------------------------
\* The PyTorch cell (cell 20)
\* ------------------------------------------------------------------------

\* The running sum c of the second average_loss(w, data): the prediction is
\* quantum_model(x, w) itself.
RECURSIVE TorchLossSum(_, _)
TorchLossSum(w, data) ==
    IF data = <<>> THEN 0
    ELSE loss(QuantumModel(Head(data)[1], w), Head(data)[2])
         + TorchLossSum(w, Tail(data))

\* average_loss(w, data) of cell 20
torch_average_loss(w, data) == RDiv(TorchLossSum(w, data), Len(data))

RECURSIVE TorchGradSum(_, _)
TorchGradSum(w, data) ==
    IF data = <<>> THEN MatZero(w)
    ELSE MatAdd(MatTimes(2, MatScale(QuantumModel(Head(data)[1], w) - Head(data)[2],
                                     GradQuantumModel(Head(data)[1], w))),
                TorchGradSum(w, Tail(data)))

\* w.grad after closure(): zero_grad(), loss = average_loss(w, data),
\* loss.backward().
closure_grad(w, data) == MatOver(TorchGradSum(w, data), Len(data))

\* lr of torch.optim.Adam([w], lr = 0.1)
AdamLr == Scale \div 10

\* Resolution of Adam's moments relative to Scale, and of 1 - beta^t.
AdamFine == 1000
AdamUnit == AdamFine * AdamFine

\* Resolution of Adam's denominator sqrt(v) + eps relative to Scale: with
\* Scale = 1000 one unit of the denominator is 1e-8.
AdamDen == 100000

\* Adam's eps (default 1e-8), in units of the denominator.
AdamEps == 1

\* The optimiser state of a fresh Adam: step count, first moment (at
\* resolution Scale * AdamFine), second moment (at resolution
\* Scale * Scale * AdamFine), beta1^t and beta2^t (at resolution AdamUnit).
AdamInit(w) ==
    [t |-> 0, m |-> MatZero(w), v |-> MatZero(w), b1p |-> AdamUnit, b2p |-> AdamUnit]

\* exp_avg = 0.9 * exp_avg + 0.1 * grad
RECURSIVE AdamM(_, _)
AdamM(m, g) ==
    IF m = <<>> THEN <<>>
    ELSE <<<<RDiv(9 * m[1][1], 10) + (AdamFine \div 10) * g[1][1],
             RDiv(9 * m[1][2], 10) + (AdamFine \div 10) * g[1][2]>>>>
         \o AdamM(Tail(m), Tail(g))

\* exp_avg_sq = 0.999 * exp_avg_sq + 0.001 * grad * grad
RECURSIVE AdamV(_, _)
AdamV(v, g) ==
    IF v = <<>> THEN <<>>
    ELSE <<<<v[1][1] - RDiv(v[1][1], AdamFine) + g[1][1] * g[1][1],
             v[1][2] - RDiv(v[1][2], AdamFine) + g[1][2] * g[1][2]>>>>
         \o AdamV(Tail(v), Tail(g))

\* sqrt(v / bc2) + eps, in units of the denominator.  The root is taken at
\* resolution 100 * Scale where its square fits the integer range.
AdamDenominator(v, bc2) ==
    IF MulDiv(v, AdamFine, bc2) < 100000
    THEN RoundSqrt(MulDiv(v, AdamFine * 10000, bc2)) * (AdamDen \div 100) + AdamEps
    ELSE RoundSqrt(MulDiv(v, AdamFine, bc2)) * AdamDen + AdamEps

\* The change of one parameter: lr * (m / bc1) / (sqrt(v / bc2) + eps), with
\* bc1 = 1 - beta1^t and bc2 = 1 - beta2^t.
AdamDelta(m, v, bc1, bc2) ==
    MulDiv(MulDiv(m, AdamUnit, bc1), AdamLr * (AdamDen \div AdamFine),
           AdamDenominator(v, bc2))

RECURSIVE AdamApply(_, _, _, _, _)
AdamApply(w, m, v, bc1, bc2) ==
    IF w = <<>> THEN <<>>
    ELSE <<<<w[1][1] - AdamDelta(m[1][1], v[1][1], bc1, bc2),
             w[1][2] - AdamDelta(m[1][2], v[1][2], bc1, bc2)>>>>
         \o AdamApply(Tail(w), Tail(m), Tail(v), bc1, bc2)

\* opt.step(closure) of torch.optim.Adam with the default betas (0.9, 0.999):
\* the new w and the new optimiser state.
AdamStep(w, g, st) ==
    LET m   == AdamM(st.m, g)
        v   == AdamV(st.v, g)
        b1p == RDiv(9 * st.b1p, 10)
        b2p == RDiv(999 * st.b2p, 1000)
    IN  [w  |-> AdamApply(w, m, v, AdamUnit - b1p, AdamUnit - b2p),
         st |-> [t |-> st.t + 1, m |-> m, v |-> v, b1p |-> b1p, b2p |-> b2p]]

\* ------------------------------------------------------------------------
\* The values the notebook writes or draws
\* ------------------------------------------------------------------------

\* n tenths as a fixed-point value.
Tenths(n) == (n * Scale) \div 10

\* x = np.array([0.1, 0.2], requires_grad=False)
X15 == <<Tenths(1), Tenths(2)>>

\* w = np.array([[-2.1, 1.2], [-1.4, -3.9], [0.5, 0.2]])
W15 == <<<<Tenths(-21), Tenths(12)>>, <<Tenths(-14), Tenths(-39)>>,
         <<Tenths(5), Tenths(2)>>>>

\* The number of samples drawn in cell 18 (100 in the notebook).
n_samples == 2

\* Values np.random.normal(loc=-1, ...), np.random.normal(loc=1, ...) may give
\* for a row of X0, and np.random.normal(loc=1, ...), np.random.normal(loc=-1,
\* ...) for a row of X1.
X0Rows == {<<Tenths(-10), Tenths(10)>>, <<Tenths(-3), Tenths(18)>>}
X1Rows == {<<Tenths(10), Tenths(-10)>>, <<Tenths(4), Tenths(-21)>>}

\* All sequences of n rows drawn from rows.
RECURSIVE Draws(_, _)
Draws(rows, n) ==
    IF n = 0 THEN {<<>>}
    ELSE {<<r>> \o rest : r \in rows, rest \in Draws(rows, n - 1)}

\* n copies of v.
RECURSIVE Const(_, _)
Const(v, n) == IF n = 0 THEN <<>> ELSE <<v>> \o Const(v, n - 1)

\* list(zip(X, Y))
RECURSIVE Zip(_, _)
Zip(X, Y) ==
    IF X = <<>> \/ Y = <<>> THEN <<>>
    ELSE <<<<Head(X), Head(Y)>>>> \o Zip(Tail(X), Tail(Y))

\* The values data may take in cell 18: X = X0 followed by X1, Y = -1 for the
\* first half and 1 for the second (the notebook writes the half of its
\* n_samples = 100 as the literal 50).
DataSets ==
    {Zip(X0 \o X1, Const(-Scale, n_samples \div 2) \o Const(Scale, n_samples \div 2)) :
        X0 \in Draws(X0Rows, n_samples \div 2), X1 \in Draws(X1Rows, n_samples \div 2)}

\* Values np.random.random(size=(3, 2)) may give.
WInits ==
    {<<<<Tenths(1), Tenths(2)>>, <<Tenths(3), Tenths(4)>>, <<Tenths(5), Tenths(6)>>>>,
     <<<<Tenths(9), Tenths(5)>>, <<Tenths(2), Tenths(7)>>, <<Tenths(6), Tenths(1)>>>>}

\* for i in range(15)
NIter == 15

\* What a library call may raise.
Exceptions == {"DeviceError"}

\* How often the user re-executes the optimiser cell.
MaxReruns == 1
\* ------------------------------------------------------------------------
\* The kernel: the names the cells bind, the device, the last cell's output
\* ------------------------------------------------------------------------

VARIABLES
    pc,       \* "idle" between cells, or the line the running cell is at
    last,     \* the number of the cell executed last (or running)
    err,      \* the exception that ended cell last, "" if none
    out,      \* what cell last has displayed or printed so far
    dev,      \* dev.state
    qtape,    \* the operations quantum_model recorded at its last call
    ns,       \* for every name, the cell that bound it last (0: unbound)
    x, w, b, data, w_init, w_new, b_new, cst, i,
    adam,     \* the state of the torch optimiser
    reruns,   \* how often the optimiser cell has been executed again
    devPrev,  \* dev.state when cell last began
    thrown,   \* the exception the last failing library call raised
    wPrev,    \* w when the running iteration began
    bPrev,    \* b when the running iteration began
    nW,       \* how often the running cell has assigned w
    nB,       \* how often the running cell has assigned b
    loss18,   \* the loss cell 18 printed last
    first19   \* what the first complete execution of cell 19 printed

vars == <<pc, last, err, out, dev, qtape, ns, x, w, b, data, w_init, w_new,
          b_new, cst, i, adam, reruns, devPrev, thrown, wPrev, bPrev, nW, nB,
          loss18, first19>>

\* The variables the circuit cells 4 to 14 leave alone.
trainVars == <<x, w, b, data, w_init, w_new, b_new, cst, i, adam, reruns,
               thrown, wPrev, bPrev, nW, nB, loss18, first19>>

\* The variables cells 15 to 17 leave alone.
loopVars == <<b, data, w_init, w_new, b_new, cst, i, adam, reruns,
              thrown, wPrev, bPrev, nW, nB, loss18, first19>>

Names == {"circuit", "s", "U", "quantum_model", "x", "w", "gradient_fn", "data",
          "loss", "average_loss", "b", "opt"}

\* The kernel after cells 1 to 3: the imports and
\* dev = qml.device('default.qubit', wires=2).
Init ==
    /\ pc = "idle" /\ last = 3 /\ err = "" /\ out = <<>>
    /\ dev = Ket00 /\ devPrev = Ket00 /\ qtape = <<>>
    /\ ns = [n \in Names |-> 0]
    /\ x = <<>> /\ w = <<>> /\ b = 0 /\ data = <<>> /\ w_init = <<>>
    /\ w_new = <<>> /\ b_new = 0 /\ cst = 0 /\ i = 0
    /\ adam = AdamInit(<<>>) /\ reruns = 0 /\ thrown = ""
    /\ wPrev = <<>> /\ bPrev = 0 /\ nW = 0 /\ nB = 0
    /\ loss18 = 0 /\ first19 = <<>>

\* Cell c begins: the kernel is idle, and the cell's output area is cleared.
Begin(c) ==
    /\ pc = "idle" /\ pc' = "idle"
    /\ last' = c
    /\ devPrev' = dev

\* A measurement by samples that leaves the device in the basis state found.
CollapsedState(st, kind, j) ==
    IF kind = "sample"
    THEN <<IF j = 1 THEN CReal(Amp) ELSE CZero, IF j = 2 THEN CReal(Amp) ELSE CZero,
           IF j = 3 THEN CReal(Amp) ELSE CZero, IF j = 4 THEN CReal(Amp) ELSE CZero>>
    ELSE st

\* What the measurement of a kind leaves on the device, given the state the
\* gates have produced and the basis state j a shot has found: default.qubit
\* computes probabilities, samples and expectation values from the state and
\* keeps the state.
StateAfterMeasurement(st, kind, j) == st

\* Cell c rebinds circuit and executes it: the operations act on the reset
\* device, and the state they give stays on the device.
RunCircuit(c, ops, kind, j) ==
    /\ err' = ""
    /\ dev' = StateAfterMeasurement(Execute(ops, dev), kind, j)
    /\ ns' = [ns EXCEPT !["circuit"] = c]
    /\ UNCHANGED qtape

\* The device gives the outcome of one shot of qml.sample(PauliZ) on both
\* wires for the basis state j: the eigenvalue 1 for bit 0, -1 for bit 1.
Shot(j) == <<1 - 2 * Bit(j, 0), 1 - 2 * Bit(j, 1)>>

\* Cell 4: Hadamard on wire 0, probabilities.
Cell4 ==
    /\ Begin(4)
    /\ RunCircuit(4, <<Hadamard(0)>>, "probs", 1)
    /\ out' = <<Probs(dev')>>
    /\ UNCHANGED trainVars

\* Cell 5: no gates, probabilities.
Cell5 ==
    /\ Begin(5)
    /\ RunCircuit(5, <<>>, "probs", 1)
    /\ out' = <<Probs(dev')>>
    /\ UNCHANGED trainVars

\* Cells 6, 8, 10 and 12: dev.state
CellState(c) ==
    /\ Begin(c)
    /\ err' = "" /\ out' = <<dev>>
    /\ UNCHANGED <<dev, qtape, ns>>
    /\ UNCHANGED trainVars

\* Cell 7: s and U are bound, then QubitUnitary(U), probabilities.
Cell7 ==
    /\ Begin(7)
    /\ err' = ""
    /\ dev' = StateAfterMeasurement(Execute(<<QubitUnitary>>, dev), "probs", 1)
    /\ out' = <<Probs(dev')>>
    /\ ns' = [ns EXCEPT !["s"] = 7, !["U"] = 7, !["circuit"] = 7]
    /\ UNCHANGED qtape
    /\ UNCHANGED trainVars

\* A cell that rebinds circuit and then fails in it with a NameError.
CircuitNameError(c) ==
    /\ err' = "NameError" /\ out' = <<>>
    /\ ns' = [ns EXCEPT !["circuit"] = c]
    /\ UNCHANGED <<dev, qtape>>

\* Cell 9: QubitUnitary(U), samples of PauliZ on both wires.  The name U is
\* looked up when the circuit runs.
Cell9 ==
    /\ Begin(9)
    /\ IF ns["U"] = 0
       THEN CircuitNameError(9)
       ELSE \E j \in 1..4 :
            /\ Probs(Execute(<<QubitUnitary>>, dev))[j] > 0
            /\ RunCircuit(9, <<QubitUnitary>>, "sample", j)
            /\ out' = <<Shot(j)>>
    /\ UNCHANGED trainVars

\* Cell 11: QubitUnitary(U), expectations of PauliZ on both wires.
Cell11 ==
    /\ Begin(11)
    /\ IF ns["U"] = 0
       THEN CircuitNameError(11)
       ELSE /\ RunCircuit(11, <<QubitUnitary>>, "expval", 1)
            /\ out' = <<<<ExpvalZ(dev', 0), ExpvalZ(dev', 1)>>>>
    /\ UNCHANGED trainVars

\* Cell 13: PauliX, CNOT, Hadamard, PauliZ, expectations of PauliZ.
Cell13 ==
    /\ Begin(13)
    /\ RunCircuit(13, <<PauliX(0), CNOT(0, 1), Hadamard(0), PauliZ(1)>>, "expval", 1)
    /\ out' = <<<<ExpvalZ(dev', 0), ExpvalZ(dev', 1)>>>>
    /\ UNCHANGED trainVars

\* Cell 14: circuit(1.2, 1.3) with RX(w1), CNOT, RY(w2).
Cell14 ==
    /\ Begin(14)
    /\ RunCircuit(14, <<RX(Tenths(12), 0), CNOT(0, 1), RY(Tenths(13), 1)>>, "expval", 1)
    /\ out' = <<<<ExpvalZ(dev', 0), ExpvalZ(dev', 1)>>>>
    /\ UNCHANGED trainVars
\* The circuit the last execution of quantum_model drew for wire k: the gates
\* on the wire in order, a CNOT shown as C on its control and X on its target.
RECURSIVE DrawWire(_, _)
DrawWire(ops, k) ==
    IF ops = <<>> THEN <<>>
    ELSE LET op == Head(ops)
         IN  (IF op.name = "CNOT"
              THEN <<[gate |-> IF op.wires[1] = k THEN "C" ELSE "X", par |-> 0]>>
              ELSE IF op.wires[1] = k
                   THEN <<[gate |-> op.name, par |-> op.par]>>
                   ELSE <<>>)
             \o DrawWire(Tail(ops), k)

\* quantum_model.draw(): both wires, and the wire the expectation of Z is
\* taken on.
Draw(ops) ==
    [wire0 |-> DrawWire(ops, 0), wire1 |-> DrawWire(ops, 1),
     Z |-> QuantumModelObservable]

\* The circuits the differentiation of quantum_model(xx, ww) in ww executes,
\* rows l.. of ww: for every entry, row by row, the circuit with the entry
\* moved up by pi / 2 and then the one with it moved down by pi / 2.
RECURSIVE ShiftedCircuitsFrom(_, _, _)
ShiftedCircuitsFrom(xx, ww, l) ==
    IF l > Len(ww) THEN <<>>
    ELSE <<QuantumModelOps(xx, Shifted(ww, l, 1, HalfPi)),
           QuantumModelOps(xx, Shifted(ww, l, 1, -HalfPi)),
           QuantumModelOps(xx, Shifted(ww, l, 2, HalfPi)),
           QuantumModelOps(xx, Shifted(ww, l, 2, -HalfPi))>>
         \o ShiftedCircuitsFrom(xx, ww, l + 1)

ShiftedCircuits(xx, ww) == ShiftedCircuitsFrom(xx, ww, 1)

\* The circuit the differentiation of quantum_model executes last: the one
\* with the last entry of w moved down by pi / 2.
LastShifted(xx, ww) == ShiftedCircuits(xx, ww)[Len(ShiftedCircuits(xx, ww))]

\* Cell 15: quantum_model, x and w are bound, then quantum_model(x, w).
Cell15 ==
    /\ Begin(15)
    /\ err' = ""
    /\ x' = X15 /\ w' = W15
    /\ ns' = [ns EXCEPT !["quantum_model"] = 15, !["x"] = 15, !["w"] = 15]
    /\ qtape' = QuantumModelOps(x', w')
    /\ dev' = Execute(qtape', dev)
    /\ out' = <<ExpvalZ(dev', QuantumModelObservable)>>
    /\ UNCHANGED loopVars

\* Cell 16: print(quantum_model.draw())
Cell16 ==
    /\ Begin(16)
    /\ IF ns["quantum_model"] = 0
       THEN err' = "NameError" /\ out' = <<>>
       ELSE err' = "" /\ out' = <<Draw(qtape)>>
    /\ UNCHANGED <<dev, qtape, ns, x, w>>
    /\ UNCHANGED loopVars

\* Cell 17: gradient_fn = qml.grad(quantum_model), then gradient_fn(x, w).
Cell17 ==
    /\ Begin(17)
    /\ IF ns["quantum_model"] = 0
       THEN /\ err' = "NameError" /\ out' = <<>>
            /\ UNCHANGED <<dev, qtape, ns>>
       ELSE /\ err' = ""
            /\ ns' = [ns EXCEPT !["gradient_fn"] = 17]
            /\ out' = <<GradQuantumModel(x, w)>>
            /\ qtape' = QuantumModelOps(x, w)
            /\ dev' = Execute(LastShifted(x, w), dev)
    /\ UNCHANGED <<x, w>>
    /\ UNCHANGED loopVars

\* The cells 4 to 17, executed one after the other in any order.
NextCircuits ==
    \/ Cell4
    \/ Cell5
    \/ \E c \in {6, 8, 10, 12} : CellState(c)
    \/ Cell7
    \/ Cell9
    \/ Cell11
    \/ Cell13
    \/ Cell14
    \/ Cell15
    \/ Cell16
    \/ Cell17

SpecCircuits == Init /\ [][NextCircuits]_vars
\* ------------------------------------------------------------------------
\* The training cells 18 to 20, one step per line with a library call
\* ------------------------------------------------------------------------

\* Bookkeeping the lines of the loops leave alone.
countVars == <<reruns, thrown, loss18, first19>>

\* The circuits a call of average_loss executes, in order: quantum_model is
\* called once for every pair of data.
RECURSIVE ForwardCircuits(_, _)
ForwardCircuits(d, ww) ==
    IF d = <<>> THEN <<>>
    ELSE <<QuantumModelOps(Head(d)[1], ww)>> \o ForwardCircuits(Tail(d), ww)

\* The circuits executed when the derivative of average_loss in w is
\* propagated back from the sum: the shifted circuits of every pair, the pair
\* added last first.
RECURSIVE BackwardCircuits(_, _)
BackwardCircuits(d, ww) ==
    IF d = <<>> THEN <<>>
    ELSE BackwardCircuits(Tail(d), ww) \o ShiftedCircuits(Head(d)[1], ww)

\* The circuits a differentiation of average_loss in w executes: the value
\* is computed first, the derivative is propagated back after it.
GradientCircuits(d, ww) == ForwardCircuits(d, ww) \o BackwardCircuits(d, ww)

\* The circuit a call of average_loss executes last: the one of the last pair.
LastForward(d, ww) == ForwardCircuits(d, ww)[Len(d)]

\* The circuit a differentiation of average_loss in w executes last: the
\* last shifted circuit of the first pair.
LastBackward(d, ww) == GradientCircuits(d, ww)[Len(GradientCircuits(d, ww))]

\* Cell 18, lines 749 to 779: data, the functions, w_init, w and b are bound
\* and the loop is entered.
Cell18 ==
    /\ pc = "idle" /\ pc' = "L780"
    /\ last' = 18 /\ devPrev' = dev
    /\ err' = "" /\ out' = <<>>
    /\ \E d \in DataSets, wi \in WInits :
          /\ data' = d
          /\ w_init' = wi
          /\ w' = wi
    /\ b' = 0
    /\ ns' = [ns EXCEPT !["data"] = 18, !["loss"] = 18, !["average_loss"] = 18,
                        !["w"] = 18, !["b"] = 18]
    /\ i' = 0
    /\ wPrev' = w' /\ bPrev' = b' /\ nW' = 0 /\ nB' = 0
    /\ UNCHANGED <<dev, qtape, x, w_new, b_new, cst, adam>>
    /\ UNCHANGED countVars

\* for i in range(15): the next iteration, or the end of the cell.
NextIteration(line) ==
    IF i = NIter - 1
    THEN pc' = "idle" /\ i' = i
    ELSE pc' = line /\ i' = i + 1

\* w_new = w - 0.05*gradient_fn_w(w, b, data)
L780 ==
    /\ pc = "L780" /\ pc' = "L781"
    /\ w_new' = Line780(w, b, data)
    /\ wPrev' = w /\ bPrev' = b
    /\ qtape' = LastForward(data, w)
    /\ dev' = Execute(LastBackward(data, w), dev)
    /\ UNCHANGED <<last, err, out, ns, x, w, b, data, w_init, b_new, cst, i, adam,
                   devPrev, nW, nB>>
    /\ UNCHANGED countVars

\* b_new = b - 0.05*gradient_fn_b(w, b, data)
L781 ==
    /\ pc = "L781" /\ pc' = "L782"
    /\ b_new' = Line781(w, b, w_new, data)
    /\ qtape' = LastForward(data, w)
    /\ dev' = Execute(qtape', dev)
    /\ UNCHANGED <<last, err, out, ns, x, w, b, data, w_init, w_new, cst, i, adam,
                   devPrev, wPrev, bPrev, nW, nB>>
    /\ UNCHANGED countVars

\* print(average_loss(w_new, b_new, data))
L782 ==
    /\ pc = "L782" /\ pc' = "L783"
    /\ out' = Append(out, Line782(w_new, b_new, data))
    /\ loss18' = Line782(w_new, b_new, data)
    /\ qtape' = LastForward(data, w_new)
    /\ dev' = Execute(qtape', dev)
    /\ UNCHANGED <<last, err, ns, x, w, b, data, w_init, w_new, b_new, cst, i, adam,
                   devPrev, wPrev, bPrev, nW, nB, reruns, thrown, first19>>

\* w = w_new
L783 ==
    /\ pc = "L783" /\ pc' = "L784"
    /\ w' = w_new
    /\ nW' = nW + 1
    /\ UNCHANGED <<last, err, out, dev, qtape, ns, x, b, data, w_init, w_new, b_new,
                   cst, i, adam, devPrev, wPrev, bPrev, nB>>
    /\ UNCHANGED countVars

\* b = b_new, and back to the head of the loop.
L784 ==
    /\ pc = "L784"
    /\ b' = b_new
    /\ nB' = nB + 1
    /\ NextIteration("L780")
    /\ UNCHANGED <<last, err, out, dev, qtape, ns, x, w, data, w_init, w_new, b_new,
                   cst, adam, devPrev, wPrev, bPrev, nW>>
    /\ UNCHANGED countVars

\* Cell 19, lines 824 and 825: opt is bound and the loop is entered.
Start19 ==
    /\ pc = "idle" /\ pc' = "L827"
    /\ last' = 19 /\ devPrev' = dev
    /\ err' = "" /\ out' = <<>>
    /\ ns' = [ns EXCEPT !["opt"] = 19]
    /\ i' = 0
    /\ wPrev' = w /\ bPrev' = b /\ nW' = 0 /\ nB' = 0
    /\ UNCHANGED <<dev, qtape, x, w, b, data, w_init, w_new, b_new, cst, adam>>
    /\ UNCHANGED <<thrown, loss18, first19>>

\* Cell 19 executed in its place.
Cell19 == Start19 /\ reruns' = reruns

\* Cell 19 executed once more, after itself or after cell 20.
Cell19Again ==
    /\ err = "" /\ last \in {19, 20}
    /\ reruns < MaxReruns
    /\ Start19 /\ reruns' = reruns + 1

\* ([w, b], cst) = opt.step_and_cost(lambda w_, b_: average_loss(w_, b_, data), w, b)
\* The lambda calls what average_loss names when the line runs, with three
\* arguments.
L827 ==
    /\ pc = "L827"
    /\ IF ns["average_loss"] = 18
       THEN /\ pc' = "L828"
            /\ \E r \in {step_and_cost(w, b, data)} :
                  /\ w' = r.w
                  /\ b' = r.b
                  /\ cst' = r.cst
            /\ wPrev' = w /\ bPrev' = b
            /\ nW' = nW + 1 /\ nB' = nB + 1
            /\ qtape' = LastForward(data, w)
            /\ dev' = Execute(LastBackward(data, w), dev)
            /\ UNCHANGED <<err, thrown>>
       ELSE /\ pc' = "idle"
            /\ err' = "TypeError" /\ thrown' = "TypeError"
            /\ UNCHANGED <<w, b, cst, wPrev, bPrev, nW, nB, qtape, dev>>
    /\ UNCHANGED <<last, out, ns, x, data, w_init, w_new, b_new, i, adam, devPrev,
                   reruns, loss18, first19>>

\* print(cst), and back to the head of the loop.
L828 ==
    /\ pc = "L828"
    /\ out' = Append(out, cst)
    /\ NextIteration("L827")
    /\ first19' = IF i = NIter - 1 /\ first19 = <<>> THEN out' ELSE first19
    /\ UNCHANGED <<last, err, dev, qtape, ns, x, w, b, data, w_init, w_new, b_new,
                   cst, adam, devPrev, wPrev, bPrev, nW, nB, reruns, thrown, loss18>>

\* Cell 20, lines 880 to 911: data, quantum_model and average_loss are
\* rebound, w is drawn afresh, opt is a new Adam, and the loop is entered.
\* The new quantum_model has not been called yet: it has recorded no
\* operations.
Cell20 ==
    /\ pc = "idle" /\ pc' = "L912"
    /\ last' = 20 /\ devPrev' = dev
    /\ err' = "" /\ out' = <<>>
    /\ \E wi \in WInits :
          /\ w_init' = wi
          /\ w' = wi
          /\ adam' = AdamInit(wi)
    /\ ns' = [ns EXCEPT !["data"] = 20, !["quantum_model"] = 20,
                        !["average_loss"] = 20, !["w"] = 20, !["opt"] = 20]
    /\ i' = 0
    /\ wPrev' = w' /\ bPrev' = b /\ nW' = 0 /\ nB' = 0
    /\ qtape' = <<>>
    /\ UNCHANGED <<dev, x, b, data, w_new, b_new, cst>>
    /\ UNCHANGED countVars

\* opt.step(closure)
L912 ==
    /\ pc = "L912" /\ pc' = "L914"
    /\ \E g \in {closure_grad(w, data)} :
          \E r \in {AdamStep(w, g, adam)} :
             /\ w' = r.w
             /\ adam' = r.st
    /\ wPrev' = w /\ bPrev' = b
    /\ nW' = nW + 1
    /\ qtape' = LastForward(data, w)
    /\ dev' = Execute(LastBackward(data, w), dev)
    /\ UNCHANGED <<last, err, out, ns, x, b, data, w_init, w_new, b_new, cst, i,
                   devPrev, nB>>
    /\ UNCHANGED countVars

\* print(average_loss(w, data)), and back to the head of the loop.
L914 ==
    /\ pc = "L914"
    /\ out' = Append(out, torch_average_loss(w, data))
    /\ qtape' = LastForward(data, w)
    /\ dev' = Execute(qtape', dev)
    /\ NextIteration("L912")
    /\ UNCHANGED <<last, err, ns, x, w, b, data, w_init, w_new, b_new, cst, adam,
                   devPrev, wPrev, bPrev, nW, nB>>
    /\ UNCHANGED countVars

\* The lines at which the running cell is inside a library call.
CallSites == {"L780", "L781", "L782", "L827", "L912", "L914"}

\* A cell that reports every failure as a RuntimeError.
Wrapped(e) == "RuntimeError"

\* What the cell reports when a call raises e: no line of the notebook is
\* inside a try statement.
Uncaught(e) == e

\* The circuits the line at pc has the device execute, in order.
Executions(line) ==
    CASE line \in {"L780", "L827", "L912"} -> GradientCircuits(data, w)
      [] line \in {"L781", "L914"} -> ForwardCircuits(data, w)
      [] line = "L782" -> ForwardCircuits(data, w_new)
      [] OTHER -> <<>>

\* Execution k of the line the cell is at raises: the executions before it
\* have been completed, so that the device holds the state of execution
\* k - 1 (the device rejects a circuit before it resets its state), and
\* quantum_model holds the operations of its last call, which is call k
\* while average_loss runs and its last call afterwards.  The assignment of
\* the line does not happen, and the cell ends.  (With average_loss rebound,
\* line 827 fails in the call of the lambda, before the library executes
\* anything.)
Raise ==
    /\ pc \in CallSites /\ pc' = "idle"
    /\ pc = "L827" => ns["average_loss"] = 18
    /\ \E e \in Exceptions :
          /\ thrown' = e
          /\ err' = Uncaught(e)
    /\ \E k \in 1..Len(Executions(pc)) :
          /\ qtape' = Executions(pc)[IF k < Len(data) THEN k ELSE Len(data)]
          /\ dev' = IF k = 1 THEN dev ELSE Execute(Executions(pc)[k - 1], dev)
    /\ UNCHANGED <<last, out, ns, x, w, b, data, w_init, w_new, b_new,
                   cst, i, adam, reruns, devPrev, wPrev, bPrev, nW, nB, loss18,
                   first19>>

\* "Run All": cell c is executed when cell c - 1 has ended without an error.
InOrder(c) == err = "" /\ last = c - 1

Next ==
    \/ (InOrder(4) /\ Cell4)
    \/ (InOrder(5) /\ Cell5)
    \/ (InOrder(6) /\ CellState(6))
    \/ (InOrder(7) /\ Cell7)
    \/ (InOrder(8) /\ CellState(8))
    \/ (InOrder(9) /\ Cell9)
    \/ (InOrder(10) /\ CellState(10))
    \/ (InOrder(11) /\ Cell11)
    \/ (InOrder(12) /\ CellState(12))
    \/ (InOrder(13) /\ Cell13)
    \/ (InOrder(14) /\ Cell14)
    \/ (InOrder(15) /\ Cell15)
    \/ (InOrder(16) /\ Cell16)
    \/ (InOrder(17) /\ Cell17)
    \/ (InOrder(18) /\ Cell18)
    \/ L780
    \/ L781
    \/ L782
    \/ L783
    \/ L784
    \/ (InOrder(19) /\ Cell19)
    \/ Cell19Again
    \/ L827
    \/ L828
    \/ (InOrder(20) /\ Cell20)
    \/ L912
    \/ L914
    \/ Raise

Spec == Init /\ [][Next]_vars
\* ------------------------------------------------------------------------
\* Properties
\* ------------------------------------------------------------------------

\* C1: every iteration of the hand-coded loop replaces w by
\* w - 0.05 * d average_loss / dw and b by b - 0.05 * d average_loss / db, both
\* gradients taken at the pair (w, b) the iteration began with, and the loop
\* makes 15 such iterations.
C1_HandCodedStep ==
    /\ (last = 18 /\ err = "" /\ pc \in {"L780", "idle"} /\ nB > 0) =>
          /\ w = MatSub(wPrev, MatScale(LearningRate, gradient_fn_w(wPrev, bPrev, data)))
          /\ b = bPrev - Mul(LearningRate, gradient_fn_b(wPrev, bPrev, data))
          /\ nW = nB
    /\ (last = 18 /\ err = "" /\ pc = "L780") => (nW = i /\ i < NIter)
    /\ (last = 18 /\ err = "" /\ pc = "idle") => (nW = NIter /\ nB = NIter)

\* The hand-coded loop has run to its end and has moved the parameters.
C1_Witness ==
    /\ last = 18 /\ err = "" /\ pc = "idle"
    /\ nB = NIter
    /\ w # w_init /\ b # 0

\* C2: whatever the circuit with QubitUnitary(U) returns (probabilities,
\* samples or expectation values), the device holds the state U|00> after it.
C2_MeasurementKeepsState ==
    (last \in {7, 9, 11} /\ err = "") => dev = Apply2(U, Ket00)

\* The circuit returning samples has run and has found wire 0 in 1, wire 1 in 0.
C2_Witness ==
    /\ last = 9 /\ err = ""
    /\ out = <<<<-1, 1>>>>

\* C3: the device starts in |00>, and the circuit without gates, whatever ran
\* before it, returns the probabilities [1, 0, 0, 0] and leaves |00>.
C3_StartsFromZero ==
    /\ (last = 3) => (Probs(dev) = <<Scale, 0, 0, 0>>)
    /\ (last = 5) => (err = "" /\ out = <<<<Scale, 0, 0, 0>>>> /\ dev = Ket00)

\* The circuit without gates has run on a device an earlier circuit had left
\* in another state than |00>.
C3_Witness ==
    /\ last = 5
    /\ devPrev # Ket00
    /\ Probs(devPrev)[1] < Scale

\* C4: one opt.step_and_cost gives the w and b one iteration of the hand-coded
\* loop gives from the same pair.
C4_OptimiserStep ==
    (last = 19 /\ pc = "L828") =>
        /\ w = Line780(wPrev, bPrev, data)
        /\ b = Line781(wPrev, bPrev, Line780(wPrev, bPrev, data), data)

\* The optimiser has made a step that moved both parameters.
C4_Witness ==
    /\ last = 19 /\ pc = "L828"
    /\ w # wPrev /\ b # bPrev

\* C5: a step of the PyTorch cell is a step of the PennyLane loop: the new w is
\* w - 0.05 * d average_loss / dw for the model with the bias b.
C5_SameTrainingLoop ==
    (last = 20 /\ pc = "L914") => w = Line780(wPrev, bPrev, data)

\* C6 as stated: what the optimiser cell prints does not depend on what was
\* executed before it, so every execution prints what the first printed.
C6_Independent ==
    (last = 19 /\ pc = "idle" /\ first19 # <<>> /\ err \in {"", "TypeError"}) =>
        (err = "" /\ out = first19)

\* C6: the cells share the names of the kernel.  Executed in its place, the
\* optimiser cell goes on from the w and b cell 18 left, so its first cost is
\* the last loss cell 18 printed; executed after the PyTorch cell, it ends
\* with a TypeError before it prints anything, average_loss now taking two
\* arguments.
C6_SharedKernel ==
    /\ (last = 19 /\ pc = "L828" /\ i = 0 /\ reruns = 0) => cst = loss18
    /\ (last = 19 /\ pc = "idle" /\ ns["average_loss"] = 20) =>
          (err = "TypeError" /\ out = <<>>)
    /\ (last = 19 /\ ns["average_loss"] = 20) => reruns > 0

\* The optimiser cell has been executed after the PyTorch cell and has failed.
C6_Witness ==
    /\ last = 19 /\ pc = "idle"
    /\ ns["average_loss"] = 20
    /\ err = "TypeError"

\* C7 as stated: an error ends the cell unchanged with w and b of the last
\* complete iteration, and in no state has w been assigned more often than b.
C7_NoHalfUpdate ==
    /\ (last \in {18, 19} /\ err # "") =>
          (pc = "idle" /\ err = thrown /\ nW = i /\ nB = i)
    /\ (last \in {18, 19}) => nW = nB

\* C7: an error of a library call ends the cell unchanged, with w and b
\* assigned as often as iterations are complete; w has been assigned once more
\* than b only between lines 783 and 784, where no call is made.
C7_ErrorsEndTheCell ==
    /\ (last \in {18, 19} /\ err # "") =>
          (pc = "idle" /\ err = thrown /\ nW = i /\ nB = i)
    /\ (last \in {18, 19} /\ nW # nB) =>
          (pc = "L784" /\ pc \notin CallSites /\ nW = nB + 1 /\ err = "")

\* A library call of the hand-coded loop has raised after complete iterations.
C7_Witness ==
    /\ last = 18 /\ pc = "idle"
    /\ err \in Exceptions
    /\ nW > 0

\* C8: the loss line 782 prints is the sum over all pairs (x, y) of data, each
\* once, of (quantum_model(x, w) + b - y)^2, divided by len(data); b is 0 when
\* the loop begins.
C8_MeanSquaredError ==
    /\ (last = 18 /\ pc = "L783") =>
          LET term(k) == Sq(QuantumModel(data[k][1], w_new) + b_new - data[k][2])
              RECURSIVE SumTo(_)
              SumTo(k) == IF k = 0 THEN 0 ELSE SumTo(k - 1) + term(k)
          IN  /\ Len(data) > 0
              /\ out[Len(out)] = RDiv(SumTo(Len(data)), Len(data))
    /\ (last = 18 /\ pc = "L780" /\ i = 0) => b = 0

\* A loss has been printed for a bias that is not 0.
C8_Witness ==
    /\ last = 18 /\ pc = "L783"
    /\ b_new # 0
    /\ Len(out) > 1

\* C9: quantum_model applies RX(x[i]) on each wire i, then for each row l of w
\* RX(w[l][i]) on each wire i and CNOT(0, 1), and returns the expectation of
\* PauliZ on wire 0; w has 3 rows, and the drawing shows these gates.
C9_CircuitStructure ==
    /\ (last = 15) =>
          /\ err = ""
          /\ Len(w) = 3
          /\ Len(qtape) = 2 + 3 * Len(w)
          /\ qtape[1] = RX(x[1], 0)
          /\ qtape[2] = RX(x[2], 1)
          /\ \A l \in 1..Len(w) :
                /\ qtape[3 * l] = RX(w[l][1], 0)
                /\ qtape[3 * l + 1] = RX(w[l][2], 1)
                /\ qtape[3 * l + 2] = CNOT(0, 1)
          /\ QuantumModelObservable = 0
          /\ out = <<ExpvalZ(ApplyOps(qtape, Ket00), 0)>>
    /\ (last = 16 /\ err = "") =>
          /\ [k \in 1..7 |-> out[1].wire0[k].gate] = <<"RX", "RX", "C", "RX", "C", "RX", "C">>
          /\ [k \in 1..7 |-> out[1].wire1[k].gate] = <<"RX", "RX", "X", "RX", "X", "RX", "X">>
          /\ Len(out[1].wire0) = 7 /\ Len(out[1].wire1) = 7
          /\ out[1].Z = 0

\* The circuit of cell 15 has been drawn with the angles of x and w.
C9_Witness ==
    /\ last = 16 /\ err = ""
    /\ out[1].wire0[1].par = X15[1]
    /\ out[1].wire1[6].par = W15[3][2]
====
